---- MODULE Spec2Model ----
(***************************************************************************)
(* toml_pretty: to_string flattens a JSON object tree into dotted keys and *)
(* renders one `key = value` entry per flattened entry (src/src/lib.rs).   *)
(*                                                                         *)
(* Text is a sequence of one-character strings.  A Value is a record with  *)
(* a tag t: Null, Bool (b), Num (n), Str (s), Arr (kids: sequence of       *)
(* Values), Obj (kids: sequence of <<field, Value>> in insertion order).   *)
(***************************************************************************)
EXTENDS Integers, Sequences, FiniteSets, TLC

VARIABLES value, options, pc, map, i, res, result

vars == <<value, options, pc, map, i, res, result>>

\* ------------------------------------------------------------------ bounds
\* Largest number of fields of the top-level object.
MaxFields == 2

\* Largest number of elements of a top-level array entry.
MaxElems == 2

\* ------------------------------------------------------------ characters
NL == "\n"

Q == "\""

BS == "\\"

TabDefault == <<"\t">>

WhiteSpace == {" ", NL, "\t", "\r"}

\* ------------------------------------------------------- str primitives
RECURSIVE join(_, _)
\* [String]::join
join(strs, sep) ==
  IF strs = <<>> THEN <<>>
  ELSE IF Len(strs) = 1 THEN strs[1]
  ELSE strs[1] \o sep \o join(Tail(strs), sep)

\* str::contains(char)
contains(s, c) == \E k \in 1..Len(s) : s[k] = c

RECURSIVE replace(_, _, _)
\* str::replace(char, &str)
replace(s, c, with) ==
  IF s = <<>> THEN <<>>
  ELSE (IF Head(s) = c THEN with ELSE <<Head(s)>>) \o replace(Tail(s), c, with)

\* True when pat occurs in s starting at position k.
MatchAt(s, pat, k) ==
  /\ k + Len(pat) - 1 <= Len(s)
  /\ SubSeq(s, k, k + Len(pat) - 1) = pat

\* Positions where pat occurs in s.
Occurrences(s, pat) == {k \in 1..Len(s) : MatchAt(s, pat, k)}

Min(S) == CHOOSE m \in S : \A n \in S : m <= n

Max(S) == CHOOSE m \in S : \A n \in S : m >= n

RECURSIVE split(_, _)
\* str::split(&str): the pieces between non-overlapping matches, left to right
split(s, pat) ==
  LET occ == Occurrences(s, pat) IN
  IF occ = {} THEN <<s>>
  ELSE LET p == Min(occ) IN
       <<SubSeq(s, 1, p - 1)>> \o split(SubSeq(s, p + Len(pat), Len(s)), pat)

\* str::trim
trim(s) ==
  LET keep == {k \in 1..Len(s) : s[k] \notin WhiteSpace} IN
  IF keep = {} THEN <<>> ELSE SubSeq(s, Min(keep), Max(keep))

\* str::rsplit_once(char): <<>> for None, <<before, after>> for Some
rsplit_once(s, c) ==
  LET occ == {k \in 1..Len(s) : s[k] = c} IN
  IF occ = {} THEN <<>>
  ELSE LET p == Max(occ) IN <<SubSeq(s, 1, p - 1), SubSeq(s, p + 1, Len(s))>>

Digits == <<"0", "1", "2", "3", "4", "5", "6", "7", "8", "9">>

RECURSIVE NumberText(_)
\* Display of a non-negative integer serde_json Number
NumberText(n) ==
  IF n < 10 THEN <<Digits[n + 1]>>
  ELSE NumberText(n \div 10) \o <<Digits[(n % 10) + 1]>>

\* Value::to_string for Bool and Number
ValueText(val) ==
  IF val.t = "Bool"
  THEN (IF val.b THEN <<"t", "r", "u", "e">> ELSE <<"f", "a", "l", "s", "e">>)
  ELSE NumberText(val.n)

\* ------------------------------------------------------------------ Value
Null == [t |-> "Null"]

Bool(b) == [t |-> "Bool", b |-> b]

Num(n) == [t |-> "Num", n |-> n]

Str(s) == [t |-> "Str", s |-> s]

Arr(kids) == [t |-> "Arr", kids |-> kids]

Obj(kids) == [t |-> "Obj", kids |-> kids]

\* ---------------------------------------------------------------- Options
Options ==
  [tab : {TabDefault},
   skip_empty_string : BOOLEAN,
   skip_empty_object : BOOLEAN,
   inline_array : BOOLEAN,
   max_inline_array_length : {3}]

\* Options::inline_array
inline_array(opts, b) == [opts EXCEPT !.inline_array = b]

\* ---------------------------------------------------------------- results
Ok(out) == [err |-> "None", out |-> out]

Err(e) == [err |-> e, out |-> <<>>]

\* ------------------------------------------------------------- flatten_map
\* insert that keeps both entries of a repeated key
insert_append(target, key, val) == Append(target, <<key, val>>)

\* OrderedHashMap::insert: a new key goes last, an existing key keeps its
\* place and takes the new value
insert(target, key, val) ==
  IF \E k \in 1..Len(target) : target[k][1] = key
  THEN [k \in 1..Len(target) |->
          IF target[k][1] = key THEN <<key, val>> ELSE target[k]]
  ELSE Append(target, <<key, val>>)

\* child_field that forgets the parent
child_field_noparent(parent_field, field) == field

\* The dotted key of field under parent_field (<<>> is None at the root)
child_field(parent_field, field) ==
  IF parent_field = <<>> THEN field ELSE parent_field \o <<".">> \o field

\* keep_empty that ignores skip_empty_object
keep_empty_always(parent_field, source, skip_empty_object) ==
  source = <<>> /\ parent_field # <<>>

\* keep_empty with skip_empty_object inverted
keep_empty_inverted(parent_field, source, skip_empty_object) ==
  skip_empty_object /\ source = <<>> /\ parent_field # <<>>

\* The early return of flatten_map_rec: an empty object under a field is kept
keep_empty(parent_field, source, skip_empty_object) ==
  ~skip_empty_object /\ source = <<>> /\ parent_field # <<>>

RECURSIVE flatten_map_rec(_, _, _, _), flatten_fields(_, _, _, _)
\* flatten_map_rec: returns the target after the call
flatten_map_rec(target, parent_field, source, skip_empty_object) ==
  IF keep_empty(parent_field, source, skip_empty_object)
  THEN insert(target, parent_field, Obj(<<>>))
  ELSE flatten_fields(target, parent_field, source, skip_empty_object)

\* the `for (field, val) in source` loop of flatten_map_rec
flatten_fields(target, parent_field, source, skip_empty_object) ==
  IF source = <<>> THEN target
  ELSE LET field == Head(source)[1]
           val == Head(source)[2]
           path == child_field(parent_field, field)
           next == IF val.t = "Obj"
                   THEN flatten_map_rec(target, path, val.kids, skip_empty_object)
                   ELSE insert(target, path, val)
       IN flatten_fields(next, parent_field, Tail(source), skip_empty_object)

flatten_map(m, skip_empty_object) ==
  flatten_map_rec(<<>>, <<>>, m, skip_empty_object)

\* ------------------------------------------------------------- to_string
\* res.push('\n') when i != 0
sep(k) == IF k # 0 THEN <<NL>> ELSE <<>>

\* "\"{}\"" with the quotes of the string escaped
quoted(s) == <<Q>> \o replace(s, Q, <<BS, Q>>) \o <<Q>>

\* string_entry without the triple-quoted form
string_entry_oneline(key, s) == key \o <<" ", "=", " ">> \o quoted(s)

\* The String arm once the entry is not skipped
string_entry(key, s) ==
  IF contains(s, NL)
  THEN key \o <<" ", "=", " ", Q, Q, Q, NL>> \o s \o <<Q, Q, Q>>
  ELSE key \o <<" ", "=", " ">> \o quoted(s)

\* total_length: the fold over strs
total_length(strs) ==
  LET RECURSIVE sum(_)
      sum(ss) == IF ss = <<>> THEN 0 ELSE Len(Head(ss)) + sum(Tail(ss))
  IN sum(strs)

\* is_inline with < for <=
is_inline_strict(opts, strs) ==
  opts.inline_array \/ total_length(strs) < opts.max_inline_array_length

\* let inline_array = inline_array || total_length <= max_inline_array_length
is_inline(opts, strs) ==
  opts.inline_array \/ total_length(strs) <= opts.max_inline_array_length

\* The tail of the Array arm: join strs and wrap them
array_entry(key, strs, opts) ==
  IF is_inline(opts, strs)
  THEN key \o <<" ", "=", " ", "[">> \o join(strs, <<",", " ">>) \o <<"]">>
  ELSE key \o <<" ", "=", " ", "[", NL>> \o opts.tab
           \o join(strs, <<",", NL>> \o opts.tab) \o <<NL, "]">>

\* One token of the loop of to_array_object_string
push_token(acc, token) ==
  LET sp == rsplit_once(token, NL) IN
  IF sp # <<>>
  THEN acc \o <<" ", "=", " ">> \o trim(sp[1]) \o <<",", " ">> \o trim(sp[2])
  ELSE IF acc = <<>> THEN token
  ELSE acc \o <<" ", "=", " ">> \o token

RECURSIVE push_tokens(_, _)
push_tokens(acc, tokens) ==
  IF tokens = <<>> THEN acc
  ELSE push_tokens(push_token(acc, trim(Head(tokens))), Tail(tokens))

\* The string surgery of to_array_object_string on the text of to_string
reassemble(text) ==
  <<"{", " ">> \o push_tokens(<<>>, split(text, <<" ", "=", " ">>)) \o <<" ", "}">>

RECURSIVE to_string(_, _), loop(_, _, _, _), entry(_, _, _, _, _)
RECURSIVE to_array_object_string(_, _), elems(_, _, _), inner_elems(_, _, _)

\* nested_array that drops the array and goes on with the next element
nested_array_dropped(rest, out, opts) == inner_elems(rest, out, opts)

\* An array inside an array inside an array: return Err(TripleNestedArray)
nested_array(rest, out, opts) == Err("TripleNestedArray")

to_array_object_string(m, opts) ==
  LET r == to_string(m, inline_array(opts, TRUE)) IN
  IF r.err # "None" THEN r ELSE Ok(reassemble(r.out))

\* The match on an element of an array inside an array; out accumulates
inner_elems(vals, out, opts) ==
  IF vals = <<>> THEN Ok(out)
  ELSE LET val == Head(vals) IN
    CASE val.t = "Null" -> inner_elems(Tail(vals), out, opts)
      [] val.t \in {"Bool", "Num"} ->
           inner_elems(Tail(vals), Append(out, ValueText(val)), opts)
      [] val.t = "Str" ->
           inner_elems(Tail(vals), Append(out, quoted(val.s)), opts)
      [] val.t = "Obj" ->
           LET r == to_array_object_string(val.kids, opts) IN
           IF r.err # "None" THEN r
           ELSE inner_elems(Tail(vals), Append(out, r.out), opts)
      [] val.t = "Arr" -> nested_array(Tail(vals), out, opts)

\* The match on an element of an array entry; strs accumulates
elems(vals, strs, opts) ==
  IF vals = <<>> THEN Ok(strs)
  ELSE LET val == Head(vals) IN
    CASE val.t = "Null" -> elems(Tail(vals), strs, opts)
      [] val.t \in {"Bool", "Num"} ->
           elems(Tail(vals), Append(strs, ValueText(val)), opts)
      [] val.t = "Str" ->
           IF opts.skip_empty_string /\ val.s = <<>>
           THEN elems(Tail(vals), strs, opts)
           ELSE elems(Tail(vals), Append(strs, quoted(val.s)), opts)
      [] val.t = "Obj" ->
           LET r == to_array_object_string(val.kids, opts) IN
           IF r.err # "None" THEN r
           ELSE elems(Tail(vals), Append(strs, r.out), opts)
      [] val.t = "Arr" ->
           LET r == inner_elems(val.kids, <<>>, opts) IN
           IF r.err # "None" THEN r
           ELSE elems(Tail(vals),
                      Append(strs, <<"[">> \o join(r.out, <<",", " ">>) \o <<"]">>),
                      opts)

\* The body of the loop of to_string for entry k (0-based): the new res
entry(acc, k, key, val, opts) ==
  CASE val.t = "Null" -> Ok(acc)
    [] val.t \in {"Bool", "Num"} ->
         Ok(acc \o sep(k) \o key \o <<" ", "=", " ">> \o ValueText(val))
    [] val.t = "Str" ->
         IF opts.skip_empty_string /\ val.s = <<>> THEN Ok(acc)
         ELSE Ok(acc \o sep(k) \o string_entry(key, val.s))
    [] val.t = "Arr" ->
         IF val.kids = <<>>
         THEN Ok(acc \o sep(k) \o key \o <<" ", "=", " ", "[", "]">>)
         ELSE LET r == elems(val.kids, <<>>, opts) IN
              IF r.err # "None" THEN r
              ELSE Ok(acc \o sep(k) \o array_entry(key, r.out, opts))
    [] val.t = "Obj" ->
         IF ~opts.skip_empty_object /\ val.kids = <<>>
         THEN Ok(acc \o sep(k) \o key \o <<" ", "=", " ", "{", "}">>)
         ELSE Err("ObjectReached")

\* The loop of to_string from entry k on
loop(flat, k, acc, opts) ==
  IF k = Len(flat) THEN Ok(acc)
  ELSE LET r == entry(acc, k, flat[k + 1][1], flat[k + 1][2], opts) IN
       IF r.err # "None" THEN r ELSE loop(flat, k + 1, r.out, opts)

to_string(m, opts) ==
  loop(flatten_map(m, opts.skip_empty_object), 0, <<>>, opts)

\* ------------------------------------------------------------------ inputs
FieldA == <<"a">>

FieldB == <<"b">>

FieldAB == <<"a", ".", "b">>

Fields == {FieldA, FieldB, FieldAB}

Multiline == <<"x", NL, "y">>

Triple == Arr(<<Arr(<<Arr(<<>>)>>)>>)

\* Objects nested under a field of the top-level object
NestedObjects ==
  {Obj(<<>>),
   Obj(<<<<FieldA, Null>>, <<FieldB, Num(2)>>>>),
   Obj(<<<<FieldB, Obj(<<<<FieldA, Num(3)>>>>)>>, <<FieldA, Obj(<<>>)>>>>)}

TreeValues ==
  {Null, Num(1), Str(<<>>), Str(Multiline)} \cup NestedObjects

\* Objects that appear as elements of arrays
ObjectElements ==
  {Obj(<<>>),
   Obj(<<<<FieldA, Str(Multiline)>>>>),
   Obj(<<<<FieldA, Str(Multiline)>>, <<FieldB, Num(1)>>>>),
   Obj(<<<<FieldA, Null>>, <<FieldB, Obj(<<<<FieldA, Str(<<>>)>>>>)>>>>),
   Obj(<<<<FieldA, Triple>>>>)}

InnerArrays ==
  {Arr(<<>>),
   Arr(<<Num(1), Str(<<>>)>>),
   Arr(<<Arr(<<>>)>>),
   Arr(<<Obj(<<<<FieldA, Triple>>>>)>>)}

Elements ==
  {Null, Num(1), Str(<<>>), Str(<<"x">>)} \cup InnerArrays \cup ObjectElements

\* Sequences over S of length at most n
RECURSIVE SeqsUpTo(_, _)
SeqsUpTo(S, n) ==
  IF n = 0 THEN {<<>>}
  ELSE LET shorter == SeqsUpTo(S, n - 1) IN
       shorter \cup {Append(q, e) : q \in {r \in shorter : Len(r) = n - 1}, e \in S}

Distinct(q) == \A j, k \in 1..Len(q) : j # k => q[j][1] # q[k][1]

\* Object trees without arrays: up to MaxFields fields with distinct names
TreeInputs ==
  {q \in SeqsUpTo(Fields \X TreeValues, MaxFields) : Distinct(q)}

\* One array entry, alone or after a Null entry
ArrayInputs ==
  LET arrays == {Arr(q) : q \in SeqsUpTo(Elements, MaxElems)} IN
  {<<<<FieldA, a>>>> : a \in arrays}
    \cup {<<<<FieldA, Null>>, <<FieldB, a>>>> : a \in arrays}

\* One scalar entry
ScalarInputs ==
  {<<<<FieldA, v>>>> :
     v \in {Bool(TRUE), Bool(FALSE), Num(10), Str(<<"x">>), Str(<<Q>>),
            Str(<<"x", Q, NL>>)}}

Inputs == TreeInputs \cup ArrayInputs \cup ScalarInputs

\* ------------------------------------------------------------ the program
Pending == [tag |-> "Pending", err |-> "None", out |-> <<>>]

Init ==
  /\ value \in Inputs
  /\ options \in Options
  /\ pc = "start"
  /\ map = <<>>
  /\ i = 0
  /\ res = <<>>
  /\ result = Pending

\* flatten_map(map, skip_empty_object) at the head of the loop of to_string
Flatten ==
  /\ pc = "start"
  /\ map' = flatten_map(value, options.skip_empty_object)
  /\ pc' = "loop"
  /\ UNCHANGED <<value, options, i, res, result>>

\* One iteration of the loop of to_string on an entry with one of the tags
Iterate(tags) ==
  /\ pc = "loop"
  /\ i < Len(map)
  /\ map[i + 1][2].t \in tags
  /\ LET r == entry(res, i, map[i + 1][1], map[i + 1][2], options) IN
     IF r.err = "None"
     THEN /\ res' = r.out
          /\ i' = i + 1
          /\ UNCHANGED <<pc, result>>
     ELSE /\ pc' = "done"
          /\ result' = [tag |-> "Err", err |-> r.err, out |-> <<>>]
          /\ UNCHANGED <<res, i>>
  /\ UNCHANGED <<value, options, map>>

EntryNull == Iterate({"Null"})

EntryScalar == Iterate({"Bool", "Num"})

EntryString == Iterate({"Str"})

EntryArray == Iterate({"Arr"})

EntryObject == Iterate({"Obj"})

\* Ok(res)
Return ==
  /\ pc = "loop"
  /\ i = Len(map)
  /\ pc' = "done"
  /\ result' = [tag |-> "Ok", err |-> "None", out |-> res]
  /\ UNCHANGED <<value, options, map, i, res>>

Next ==
  \/ Flatten
  \/ EntryNull
  \/ EntryScalar
  \/ EntryString
  \/ EntryArray
  \/ EntryObject
  \/ Return

Spec == Init /\ [][Next]_vars

TypeOK ==
  /\ pc \in {"start", "loop", "done"}
  /\ i \in 0..Len(map)
  /\ result.tag \in {"Pending", "Ok", "Err"}
  /\ pc = "done" <=> result.tag # "Pending"
  /\ result.tag = "Ok" => result.out = to_string(value, options).out

\* ------------------------------------------------- reading the output text
Assign == <<" ", "=", " ">>

IsSuffix(p, s) ==
  /\ Len(p) <= Len(s)
  /\ SubSeq(s, Len(s) - Len(p) + 1, Len(s)) = p

Lines(text) == split(text, <<NL>>)

HasAssign(line) == Occurrences(line, Assign) # {}

\* The keys of the lines of text that hold an assignment, in order
OutKeys(text) ==
  LET ls == SelectSeq(Lines(text), HasAssign) IN
  [k \in 1..Len(ls) |-> split(ls[k], Assign)[1]]

\* Positions of an empty quoted string "" that is neither part of a
\* triple quote nor an escaped quote followed by a closing quote
EmptyQuoted(text) ==
  {k \in 1..(Len(text) - 1) :
     /\ text[k] = Q /\ text[k + 1] = Q
     /\ (k = 1 \/ text[k - 1] \notin {Q, BS})
     /\ (k + 2 > Len(text) \/ text[k + 2] # Q)}

Range(q) == {q[k] : k \in 1..Len(q)}

RECURSIVE Leaves(_, _)
\* The leaves of an object tree in depth-first pre-order, each with the
\* field names of its ancestors joined by '.'; an empty object under a
\* field is a leaf
Leaves(parent, fields) ==
  IF fields = <<>> THEN <<>>
  ELSE LET f == Head(fields)
           path == IF parent = <<>> THEN f[1] ELSE parent \o <<".">> \o f[1]
       IN (IF f[2].t = "Obj" /\ f[2].kids # <<>>
           THEN Leaves(path, f[2].kids)
           ELSE <<<<path, f[2]>>>>)
          \o Leaves(parent, Tail(fields))

\* A leaf that produces no assignment
Omitted(v, opts) ==
  \/ v.t = "Null"
  \/ v.t = "Str" /\ v.s = <<>> /\ opts.skip_empty_string
  \/ v.t = "Obj" /\ opts.skip_empty_object

IsEmitted(leaf) == ~Omitted(leaf[2], options)

EmittedLeaves == SelectSeq(Leaves(<<>>, value), IsEmitted)

NoArrays == \A k \in 1..Len(Leaves(<<>>, value)) : Leaves(<<>>, value)[k][2].t # "Arr"

\* No empty strings, no empty objects and no arrays in the input tree
PlainTree ==
  \A k \in 1..Len(Leaves(<<>>, value)) :
    LET v == Leaves(<<>>, value)[k][2] IN
    /\ v.t \notin {"Arr", "Obj"}
    /\ v.t = "Str" => v.s # <<>>

ReturnedOk == pc = "done" /\ result.tag = "Ok"

\* The text of each entry of flat that renders to something, without separator
RECURSIVE Chunks(_, _)
Chunks(flat, opts) ==
  IF flat = <<>> THEN <<>>
  ELSE LET r == entry(<<>>, 0, Head(flat)[1], Head(flat)[2], opts) IN
       (IF r.out = <<>> THEN <<>> ELSE <<r.out>>) \o Chunks(Tail(flat), opts)

\* The objects that are elements of array v or of an array inside v
ArrayObjects(v) ==
  {e \in Range(v.kids) : e.t = "Obj"}
    \cup UNION {{e \in Range(a.kids) : e.t = "Obj"} :
                  a \in {x \in Range(v.kids) : x.t = "Arr"}}

\* ------------------------------------------------------------------ claims

\* C1: the returned string is exactly the emitted entries joined by one
\* '\n' each; an entry that renders to nothing leaves no separator, also
\* when it is the first entry, so the output never begins or ends with '\n'.
C1_JoinedByNewline ==
  ReturnedOk =>
    /\ result.out = join(Chunks(map, options), <<NL>>)
    /\ result.out # <<>> => result.out[1] # NL /\ result.out[Len(result.out)] # NL

\* C2: for a tree with no empty strings, no empty objects and no arrays,
\* the keys of the output lines are the dotted paths of the leaves that
\* produce a line, in depth-first pre-order.
C2_KeysInPreOrder ==
  ReturnedOk /\ PlainTree =>
    OutKeys(result.out) = [k \in 1..Len(EmittedLeaves) |-> EmittedLeaves[k][1]]

Paths == [k \in 1..Len(Leaves(<<>>, value)) |-> Leaves(<<>>, value)[k][1]]

\* No two leaves of the input flatten to the same dotted path
DistinctPaths == \A j, k \in 1..Len(Paths) : j # k => Paths[j] # Paths[k]

Paths_Emitted == [k \in 1..Len(EmittedLeaves) |-> EmittedLeaves[k][1]]

\* C2 amended: the same, for trees whose leaves have pairwise distinct
\* dotted paths.
C2_KeysInPreOrderDistinct ==
  ReturnedOk /\ PlainTree /\ DistinctPaths =>
    OutKeys(result.out) = Paths_Emitted

C2_Witness ==
  /\ ReturnedOk /\ PlainTree /\ DistinctPaths
  /\ Len(EmittedLeaves) >= 2
  /\ "." \in Range(EmittedLeaves[1][1])
  /\ Len(OutKeys(result.out)) >= 2

\* C3: with skip_empty_string the output holds no empty quoted string,
\* neither as the value of a line nor as an array element at depth 1 or 2.
C3_NoEmptyString ==
  ReturnedOk /\ options.skip_empty_string => EmptyQuoted(result.out) = {}

\* The text C4 describes for an object element with fields m
ObjectText(m, opts) ==
  <<"{", " ">>
    \o join(Chunks(flatten_map(m, opts.skip_empty_object),
                   inline_array(opts, TRUE)), <<",", " ">>)
    \o <<" ", "}">>

\* C4: an object element of an array renders as `{ ` + its flattened
\* entries as to_string renders them with inline arrays, joined by `, `,
\* + ` }`, wherever a multi-line string sits among the entries.
C4_ObjectElement ==
  ReturnedOk =>
    \A k \in 1..Len(map) : map[k][2].t = "Arr" =>
      \A o \in ArrayObjects(map[k][2]) :
        to_array_object_string(o.kids, options).out = ObjectText(o.kids, options)

HasTriple(v) ==
  /\ v.t = "Arr"
  /\ \E a \in Range(v.kids) : a.t = "Arr" /\ \E b \in Range(a.kids) : b.t = "Arr"

RECURSIVE TripleIn(_, _)
\* Some entry of flat holds three levels of arrays, directly or in an
\* object that is an element of one of its arrays
TripleIn(flat, skip_empty_object) ==
  \E k \in 1..Len(flat) :
    LET v == flat[k][2] IN
    /\ v.t = "Arr"
    /\ \/ HasTriple(v)
       \/ \E o \in ArrayObjects(v) :
            TripleIn(flatten_map(o.kids, skip_empty_object), skip_empty_object)

\* C5: when a flattened entry holds three levels of arrays, to_string
\* returns Err(TripleNestedArray) and no output string.
C5_TripleNestedArray ==
  pc = "done" /\ TripleIn(map, options.skip_empty_object) =>
    /\ result.tag = "Err"
    /\ result.err = "TripleNestedArray"
    /\ result.out = <<>>

C5_Witness ==
  /\ pc = "done"
  /\ result.err = "TripleNestedArray"
  /\ \E k \in 1..Len(map) :
       /\ map[k][2].t = "Arr"
       /\ ~HasTriple(map[k][2])
       /\ \E o \in ArrayObjects(map[k][2]) :
            TripleIn(flatten_map(o.kids, options.skip_empty_object),
                     options.skip_empty_object)

EmptyObjectPaths ==
  {l[1] : l \in {x \in Range(Leaves(<<>>, value)) : x[2].t = "Obj"}}

\* C6: with skip_empty_object = false every empty object under a field
\* gives the line `path = {}`; with skip_empty_object = true no line has
\* that key.
C6_EmptyObjects ==
  ReturnedOk =>
    \A p \in EmptyObjectPaths :
      IF options.skip_empty_object
      THEN p \notin Range(OutKeys(result.out))
      ELSE (p \o <<" ", "=", " ", "{", "}">>) \in Range(Lines(result.out))

\* C6 amended: the same, for every empty object whose dotted path no other
\* leaf of the input flattens to.
C6_EmptyObjectsDistinct ==
  ReturnedOk =>
    \A p \in EmptyObjectPaths :
      Cardinality({k \in 1..Len(Paths) : Paths[k] = p}) = 1 =>
        IF options.skip_empty_object
        THEN p \notin Range(OutKeys(result.out))
        ELSE (p \o <<" ", "=", " ", "{", "}">>) \in Range(Lines(result.out))

C6_Witness ==
  /\ ReturnedOk
  /\ ~options.skip_empty_object
  /\ Len(Paths) >= 2
  /\ \E p \in EmptyObjectPaths :
       /\ "." \in Range(p)
       /\ Cardinality({k \in 1..Len(Paths) : Paths[k] = p}) = 1
       /\ p \in Range(OutKeys(result.out))

\* The text C7 describes for array entry key with rendered elements es
ArrayText(key, es, opts) ==
  IF opts.inline_array \/ Len(join(es, <<>>)) <= opts.max_inline_array_length
  THEN key \o <<" ", "=", " ", "[">> \o join(es, <<",", " ">>) \o <<"]">>
  ELSE key \o <<" ", "=", " ", "[", NL>>
         \o join([k \in 1..Len(es) |->
                    opts.tab \o es[k] \o (IF k < Len(es) THEN <<",">> ELSE <<>>)
                      \o <<NL>>], <<>>)
         \o <<"]">>

\* The array entry the loop has just rendered
ArrayDone == pc \in {"loop", "done"} /\ i >= 1 /\ map[i][2].t = "Arr"

\* C7: an array entry renders inline as `key = [e1, e2]` when inline_array
\* is set or the rendered elements' lengths sum to at most
\* max_inline_array_length, otherwise one element per line behind one tab,
\* separated by `,`, closed by `]` on its own line; empty array: `key = []`.
C7_ArrayLayout ==
  ArrayDone =>
    LET key == map[i][1]
        vals == map[i][2].kids
    IN IF vals = <<>>
       THEN IsSuffix(key \o <<" ", "=", " ", "[", "]">>, res)
       ELSE IsSuffix(ArrayText(key, elems(vals, <<>>, options).out, options), res)

C7_Witness ==
  /\ ArrayDone
  /\ pc = "done"
  /\ ~options.inline_array
  /\ options.max_inline_array_length = 3
  /\ \E k \in 1..Len(res) : res[k] = "\t"
  /\ Len(elems(map[i][2].kids, <<>>, options).out) = 2

\* The text C8 describes for string entry key with string s
StringText(key, s) ==
  IF NL \in Range(s)
  THEN key \o <<" ", "=", " ", Q, Q, Q, NL>> \o s \o <<Q, Q, Q>>
  ELSE key \o <<" ", "=", " ", Q>>
         \o join([k \in 1..Len(s) |-> IF s[k] = Q THEN <<BS, Q>> ELSE <<s[k]>>], <<>>)
         \o <<Q>>

\* The string entry the loop has just rendered
StringDone ==
  /\ pc \in {"loop", "done"} /\ i >= 1 /\ map[i][2].t = "Str"
  /\ ~(options.skip_empty_string /\ map[i][2].s = <<>>)

\* C8: a string entry that is not skipped renders as a triple-quoted block
\* with the raw string when it holds a newline, otherwise on one line in
\* quotes with every `"` replaced by `\"`.
C8_StringForm == StringDone => IsSuffix(StringText(map[i][1], map[i][2].s), res)

C8_Witness ==
  /\ StringDone
  /\ pc = "done"
  /\ Q \in Range(map[i][2].s)
  /\ NL \in Range(map[i][2].s)

\* C9: the output holds exactly one top-level assignment per non-omitted
\* leaf, also when two leaves flatten to the same dotted path (stated on
\* trees without arrays, where every assignment is a line holding ` = `).
C9_OnePerLeaf ==
  ReturnedOk /\ NoArrays => Len(OutKeys(result.out)) = Len(EmittedLeaves)

\* Of the leaves ls, the dotted paths whose last inserted leaf is not
\* omitted; flatten_map inserts all but empty objects that are skipped
KeptPathsOf(ls, opts) ==
  LET inserted == {k \in 1..Len(ls) :
                     ~(ls[k][2].t = "Obj" /\ opts.skip_empty_object)}
      last == {j \in inserted : \A l \in inserted : ls[l][1] = ls[j][1] => l <= j}
  IN {ls[j][1] : j \in {k \in last : ~Omitted(ls[k][2], opts)}}

KeptPaths == KeptPathsOf(Leaves(<<>>, value), options)

\* C9 amended: one assignment per dotted path whose last inserted leaf is
\* not omitted; of leaves that flatten to the same path only the last is
\* rendered, so a leaf with a path of its own is rendered exactly once.
C9_OnePerPath ==
  ReturnedOk =>
    LET kept == KeptPaths
        keys == OutKeys(result.out)
    IN /\ Len(Chunks(map, options)) = Cardinality(kept)
       /\ NoArrays => Len(keys) = Cardinality(kept) /\ Range(keys) = kept

C9_Witness ==
  /\ ReturnedOk
  /\ ~DistinctPaths
  /\ Len(OutKeys(result.out)) = 1
  /\ Len(EmittedLeaves) = 2

\* An Object in flat is empty and kept under skip_empty_object = false
FlatOk(flat, skip_empty_object) ==
  \A k \in 1..Len(flat) :
    flat[k][2].t = "Obj" => flat[k][2].kids = <<>> /\ ~skip_empty_object

RECURSIVE AllFlatOk(_, _)
\* FlatOk of flat and of the flattening of every object inside its arrays
AllFlatOk(flat, skip_empty_object) ==
  /\ FlatOk(flat, skip_empty_object)
  /\ \A k \in 1..Len(flat) : flat[k][2].t = "Arr" =>
       \A o \in ArrayObjects(flat[k][2]) :
         AllFlatOk(flatten_map(o.kids, skip_empty_object), skip_empty_object)

\* C10: the mapping flatten_map returns holds an Object only when it is
\* empty and skip_empty_object is false, at top level and for objects
\* inside arrays, so to_string never returns Err(ObjectReached).
C10_NoObjectReached ==
  pc # "start" =>
    /\ AllFlatOk(map, options.skip_empty_object)
    /\ result.err # "ObjectReached"

C10_Witness ==
  /\ pc = "done"
  /\ result.tag = "Ok"
  /\ options.skip_empty_object
  /\ \E f \in Range(value) : f[2].t = "Obj" /\ \E g \in Range(f[2].kids) : g[2] = Obj(<<>>)
  /\ Len(map) >= 1

====
